---- MODULE Spec2Model ----
(***************************************************************************)
(* A model of pydns.py: the DNS header, name, question, resource and       *)
(* packet classes.  Wire buffers are sequences of octets (0..255), text    *)
(* is a sequence of code points.  Python's 0-based offsets are kept: the   *)
(* octet at offset i of buffer b is b[i + 1].                              *)
(***************************************************************************)
EXTENDS Integers, Sequences, FiniteSets, TLC

VARIABLES
    hc_pc,      \* header codec: "idle", "new", "packed", "unpacked", "raised"
    hc_h,       \* header codec: the DNSHeader whose fields were set
    hc_pack,    \* header codec: the octets get_pack returned
    hc_back,    \* header codec: the DNSHeader built from hc_pack
    nc_pc,      \* name codec: "idle", "start", "named", "packed", "decoding",
                \*   "decoded", "raised"
    nc_name,    \* name codec: the dotted text given to init_from_name
    nc_err,     \* name codec: the exception raised, or "none"
    nc_obj,     \* name codec: the DNSName init_from_name returned
    nc_wire,    \* name codec: the octets nc_obj.get_pack() returned
    nc_case,    \* name codec: which buffer the decode reads, and how it was laid out
    nc_st,      \* name codec: the locals of the running from_pack
    nc_dec,     \* name codec: the DNSName init_from_pack returned
    header,     \* DNSPacket.header, the DNSHeader of the class
    questions,  \* DNSPacket.questions, the list of the class
    answers,    \* DNSPacket.answers
    authority,  \* DNSPacket.authority
    additional, \* DNSPacket.additional
    pkts,       \* the DNSPacket instances: whether add_q was called on each
    last,       \* the last call: op, pkt (the instance), pack (the octets
                \*   from_pack was given or get_pack returned), err (the
                \*   exception raised, or "none")
    failed      \* whether any from_pack has raised

hc_vars == << hc_pc, hc_h, hc_pack, hc_back >>
nc_vars == << nc_pc, nc_name, nc_err, nc_obj, nc_wire, nc_case, nc_st, nc_dec >>
pk_vars == << header, questions, answers, authority, additional, pkts, last, failed >>

(***************************************************************************)
(* Python primitives used by the code                                      *)
(***************************************************************************)

\* The value None of an integer attribute.
None == -1

Min(a, b) == IF a < b THEN a ELSE b

RECURSIVE Pow2(_)
Pow2(n) == IF n = 0 THEN 1 ELSE 2 * Pow2(n - 1)

\* a & b on non-negative integers.
RECURSIVE BitAnd(_, _)
BitAnd(a, b) ==
    IF a = 0 \/ b = 0 THEN 0
    ELSE (IF a % 2 = 1 /\ b % 2 = 1 THEN 1 ELSE 0) + 2 * BitAnd(a \div 2, b \div 2)

\* a | b on non-negative integers.
RECURSIVE BitOr(_, _)
BitOr(a, b) ==
    IF a = 0 THEN b
    ELSE IF b = 0 THEN a
    ELSE (IF a % 2 = 1 \/ b % 2 = 1 THEN 1 ELSE 0) + 2 * BitOr(a \div 2, b \div 2)

Shl(a, n) == a * Pow2(n)
Shr(a, n) == a \div Pow2(n)

\* int(b) of a bool b, as the shifts of get_pack take it.
BoolInt(b) == IF b THEN 1 ELSE 0

\* bool(n) of an integer n.
IntBool(n) == n # 0

\* s[a:b] of a sequence: the slice is clipped to the sequence, never an error.
Slice(s, a, b) ==
    IF a >= Min(b, Len(s)) THEN << >> ELSE SubSeq(s, a + 1, Min(b, Len(s)))

\* b"".join(parts)
RECURSIVE Join(_)
Join(parts) == IF parts = << >> THEN << >> ELSE Head(parts) \o Join(Tail(parts))

\* Struct "!H": one unsigned 16-bit field, big-endian.
PackH(v) == << v \div 256, v % 256 >>
UnpackH(b, i) == b[i + 1] * 256 + b[i + 2]

\* Struct "!L": one unsigned 32-bit field, big-endian.
PackL(v) == << (v \div 16777216) % 256, (v \div 65536) % 256, (v \div 256) % 256, v % 256 >>
UnpackL(b, i) == ((b[i + 1] * 256 + b[i + 2]) * 256 + b[i + 3]) * 256 + b[i + 4]

InRangeH(v) == v \in 0..65535
InRangeB(v) == v \in 0..255

(***************************************************************************)
(* DNSHeader                                                               *)
(***************************************************************************)

\* struct.size of "!HBBHHHH"
HeaderSize == 12

\* The class attributes of DNSHeader: what an instance reads before it
\* assigns a field of its own.
DNSHeaderDefaults ==
    [id |-> None, notquery |-> FALSE, opcode |-> 0, AA |-> FALSE, TC |-> FALSE,
     RD |-> FALSE, RA |-> FALSE, Z |-> 0, r_code |-> 0,
     qd_count |-> 0, an_count |-> 0, ns_count |-> 0, ar_count |-> 0]

\* DNSHeader() without a pack: a random 16-bit id (here the argument) and RD.
DNSHeader_init(randbits) == [DNSHeaderDefaults EXCEPT !.id = randbits, !.RD = TRUE]

bits16_23_of(h) ==
    BitOr(BitOr(BitOr(BitOr(Shl(BoolInt(h.notquery), 7),
                            Shl(BitAnd(h.opcode, 15), 3)),
                      Shl(BoolInt(h.AA), 2)),
                Shl(BoolInt(h.TC), 1)),
          BoolInt(h.RD))

bits24_31_of(h) ==
    BitOr(BitOr(Shl(BoolInt(h.RA), 7), Shl(BitAnd(h.Z, 7), 4)), h.r_code)

\* struct.pack raises struct.error when a field does not fit its format.
DNSHeader_packable(h) ==
    /\ InRangeH(h.id) /\ InRangeB(bits16_23_of(h)) /\ InRangeB(bits24_31_of(h))
    /\ InRangeH(h.qd_count) /\ InRangeH(h.an_count)
    /\ InRangeH(h.ns_count) /\ InRangeH(h.ar_count)

DNSHeader_get_pack(h) ==
    PackH(h.id) \o << bits16_23_of(h), bits24_31_of(h) >>
        \o PackH(h.qd_count) \o PackH(h.an_count)
        \o PackH(h.ns_count) \o PackH(h.ar_count)

\* A variant of the flag decoding that takes the opcode from bits 2..5.
DNSHeader_set_from_pack_opshift(packed) ==
    LET bits16_23 == packed[3]
        bits24_31 == packed[4]
    IN  [id |-> UnpackH(packed, 0),
         notquery |-> IntBool(BitAnd(bits16_23, Shl(1, 7))),
         opcode |-> Shr(BitAnd(bits16_23, Shl(15, 2)), 2),
         AA |-> IntBool(BitAnd(bits16_23, Shl(1, 2))),
         TC |-> IntBool(BitAnd(bits16_23, Shl(1, 1))),
         RD |-> IntBool(BitAnd(bits16_23, 1)),
         RA |-> IntBool(BitAnd(bits24_31, Shl(1, 7))),
         Z |-> Shr(BitAnd(bits24_31, Shl(7, 4)), 4),
         r_code |-> BitAnd(bits24_31, 15),
         qd_count |-> UnpackH(packed, 4), an_count |-> UnpackH(packed, 6),
         ns_count |-> UnpackH(packed, 8), ar_count |-> UnpackH(packed, 10)]

\* The fields set_from_pack assigns from the first 12 octets of packed
\* (which must hold at least 12: struct.unpack raises otherwise).
DNSHeader_set_from_pack(packed) ==
    LET bits16_23 == packed[3]
        bits24_31 == packed[4]
    IN  [id |-> UnpackH(packed, 0),
         notquery |-> IntBool(BitAnd(bits16_23, Shl(1, 7))),
         opcode |-> Shr(BitAnd(bits16_23, Shl(15, 3)), 3),
         AA |-> IntBool(BitAnd(bits16_23, Shl(1, 2))),
         TC |-> IntBool(BitAnd(bits16_23, Shl(1, 1))),
         RD |-> IntBool(BitAnd(bits16_23, 1)),
         RA |-> IntBool(BitAnd(bits24_31, Shl(1, 7))),
         Z |-> Shr(BitAnd(bits24_31, Shl(7, 4)), 4),
         r_code |-> BitAnd(bits24_31, 15),
         qd_count |-> UnpackH(packed, 4), an_count |-> UnpackH(packed, 6),
         ns_count |-> UnpackH(packed, 8), ar_count |-> UnpackH(packed, 10)]

(***************************************************************************)
(* DNSName                                                                 *)
(***************************************************************************)

\* The code point of ".".
Dot == 46

\* str.encode() of one code point: its UTF-8 octets.
Utf8(cp) ==
    IF cp < 128 THEN << cp >>
    ELSE IF cp < 2048 THEN << 192 + (cp \div 64), 128 + (cp % 64) >>
    ELSE IF cp < 65536
        THEN << 224 + (cp \div 4096), 128 + ((cp \div 64) % 64), 128 + (cp % 64) >>
    ELSE << 240 + (cp \div 262144), 128 + ((cp \div 4096) % 64),
            128 + ((cp \div 64) % 64), 128 + (cp % 64) >>

\* str.encode() of a text.
RECURSIVE StrEncode(_)
StrEncode(text) ==
    IF text = << >> THEN << >> ELSE Utf8(Head(text)) \o StrEncode(Tail(text))

\* text.split("."): the pieces between the dots, empty pieces included.
RECURSIVE StrSplit(_)
StrSplit(text) ==
    IF \A i \in 1..Len(text) : text[i] # Dot THEN << text >>
    ELSE LET d == CHOOSE i \in 1..Len(text) :
                      text[i] = Dot /\ \A j \in 1..(i - 1) : text[j] # Dot
         IN  << SubSeq(text, 1, d - 1) >> \o StrSplit(SubSeq(text, d + 1, Len(text)))

\* The longest label from_name accepts, counted in characters.
MaxLabelChars == 65

\* A variant of from_name that does not append the missing final dot.
DNSName_from_name_nodot(name) ==
    IF name = << >> THEN [err |-> "IndexError", retl |-> << >>]
    ELSE LET labels == StrSplit(name)
         IN  IF \E i \in 1..Len(labels) : Len(labels[i]) > MaxLabelChars
             THEN [err |-> "SyntaxError", retl |-> << >>]
             ELSE [err |-> "none",
                   retl |-> [i \in 1..Len(labels) |-> StrEncode(labels[i])]]

\* from_name(name): err is the exception raised ("none": it returned retl).
DNSName_from_name(name) ==
    IF name = << >> THEN [err |-> "IndexError", retl |-> << >>]
    ELSE LET dotted == IF name[Len(name)] # Dot THEN name \o << Dot >> ELSE name
             labels == StrSplit(dotted)
         IN  IF \E i \in 1..Len(labels) : Len(labels[i]) > MaxLabelChars
             THEN [err |-> "SyntaxError", retl |-> << >>]
             ELSE [err |-> "none",
                   retl |-> [i \in 1..Len(labels) |-> StrEncode(labels[i])]]

\* get_oct_name(): chr(len(label)).encode() and the label, for every label.
DNSName_get_oct_name(name_array) ==
    Join([i \in 1..Len(name_array) |->
             Utf8(Len(name_array[i])) \o name_array[i]])

\* "not pack_size": true of None and of 0.
NotPackSize(pack_size) == pack_size = None \/ pack_size = 0

\* The locals of from_pack before the first pass of its while loop.
\* status: "loop" (the loop condition is read next), "return", or the
\* exception raised; iters counts the passes made.
from_pack_enter(pack, sloc) ==
    [pack |-> pack, sloc |-> sloc, retl |-> << >>, pack_size |-> None,
     loc |-> sloc, label_size |-> 1, status |-> "loop", iters |-> 0]

\* A variant of the loop body that takes the consumed size at the end of
\* the data it reached rather than at the first pointer.
from_pack_iter_sizeatend(st) ==
    LET pack == st.pack
        o0 == Slice(pack, st.loc, st.loc + 1)
        o1 == Slice(pack, st.loc + 1, st.loc + 2)
        isptr == o0 # << >> /\ BitAnd(o0[1], 192) = 192
        target == BitAnd(BitOr(Shl(o0[1], 8), o1[1]), 16383)
        loc1 == IF isptr THEN target ELSE st.loc
        size == pack[loc1 + 1]
        loc3 == loc1 + 1 + size
        raised(e) == [st EXCEPT !.status = e, !.iters = @ + 1]
    IN  IF o0 = << >> THEN raised("TypeError")
        ELSE IF isptr /\ o1 = << >> THEN raised("TypeError")
        ELSE IF isptr /\ target >= Len(pack) THEN raised("SyntaxError")
        ELSE [st EXCEPT
                !.loc = loc3,
                !.label_size = size,
                !.retl = Append(@, Slice(pack, loc1 + 1, loc1 + 1 + size)),
                !.pack_size = IF size > 0 THEN None ELSE loc3 - st.sloc,
                !.status = IF size > 0 THEN "loop" ELSE "return",
                !.iters = @ + 1]

\* One pass of the while loop of from_pack, and, when the loop condition
\* then fails, the code after the loop.
from_pack_iter(st) ==
    LET pack == st.pack
        o0 == Slice(pack, st.loc, st.loc + 1)
        o1 == Slice(pack, st.loc + 1, st.loc + 2)
        isptr == o0 # << >> /\ BitAnd(o0[1], 192) = 192
        size1 == IF isptr /\ NotPackSize(st.pack_size)
                 THEN st.loc - st.sloc + 2 ELSE st.pack_size
        target == BitAnd(BitOr(Shl(o0[1], 8), o1[1]), 16383)
        loc1 == IF isptr THEN target ELSE st.loc
        size == pack[loc1 + 1]
        loc3 == loc1 + 1 + size
        raised(e) == [st EXCEPT !.status = e, !.iters = @ + 1]
    IN  IF o0 = << >> THEN raised("TypeError")
        ELSE IF isptr /\ o1 = << >> THEN raised("TypeError")
        ELSE IF isptr /\ target >= Len(pack) THEN raised("SyntaxError")
        ELSE [st EXCEPT
                !.loc = loc3,
                !.label_size = size,
                !.retl = Append(@, Slice(pack, loc1 + 1, loc1 + 1 + size)),
                !.pack_size = IF size = 0 /\ NotPackSize(size1)
                              THEN loc3 - st.sloc ELSE size1,
                !.status = IF size > 0 THEN "loop" ELSE "return",
                !.iters = @ + 1]

\* The most passes of the loop that are followed.
MaxIter == 8

\* from_pack(pack, sloc) run to its end: the locals when it returned or
\* raised ("loop": MaxIter passes did not end it).
RECURSIVE from_pack_run(_)
from_pack_run(st) ==
    IF st.status # "loop" \/ st.iters >= MaxIter THEN st
    ELSE from_pack_run(from_pack_iter(st))

DNSName_from_pack(pack, sloc) == from_pack_run(from_pack_enter(pack, sloc))

\* The locals of from_pack after n more passes of its loop, or where it
\* returned or raised before that.
RECURSIVE from_pack_after(_, _)
from_pack_after(st, n) ==
    IF n = 0 \/ st.status # "loop" THEN st
    ELSE from_pack_after(from_pack_iter(st), n - 1)

\* DNSName(name_array=...): no pack is kept.  Of the attribute s_pack only
\* its truth value is read (by get_size), and only that is kept.
DNSName_of_array(name_array) ==
    [name_array |-> name_array, s_pack |-> FALSE,
     s_pack_start |-> None, s_pack_end |-> None]

\* DNSName(pack=..., index=...) once from_pack returned with locals st.
DNSName_of_pack(st) ==
    [name_array |-> st.retl, s_pack |-> st.pack # << >>,
     s_pack_start |-> st.sloc, s_pack_end |-> st.sloc + st.pack_size]

\* The DNSName of a class that assigned nothing: the class attributes.
DNSNameDefaults == DNSName_of_array(<< >>)

DNSName_get_size(n) ==
    IF n.s_pack THEN n.s_pack_end - n.s_pack_start
    ELSE Len(DNSName_get_oct_name(n.name_array))

DNSName_get_pack(n) == DNSName_get_oct_name(n.name_array)

(***************************************************************************)
(* DNSQuestion                                                             *)
(***************************************************************************)

\* struct.size of "!HH"
QuestionFixed == 4

\* DNSQuestion(name=name, qtype=qtype, qclass=qclass): err is the exception
\* from_name raised, q the question when there was none.
DNSQuestion_of_name(name, qtype, qclass) ==
    LET r == DNSName_from_name(name)
    IN  [err |-> r.err,
         q |-> [q_name |-> DNSName_of_array(r.retl), q_type |-> qtype,
                q_class |-> qclass, s_pack_start |-> None, s_pack_end |-> None]]

DNSQuestion_get_size(q) == DNSName_get_size(q.q_name) + QuestionFixed

DNSQuestion_get_pack(q) ==
    DNSName_get_pack(q.q_name) \o PackH(q.q_type) \o PackH(q.q_class)

\* What a from_pack that ended with locals st raised: "none" when it
\* returned, "hang" when MaxIter passes did not end it.
NameErr(st) ==
    CASE st.status = "return" -> "none"
      [] st.status = "loop" -> "hang"
      [] OTHER -> st.status

\* DNSQuestion.from_pack once the name was read with locals st.
DNSQuestion_after_name(pack, index, st, name) ==
    IF NameErr(st) # "none"
    THEN [err |-> NameErr(st),
          q |-> [q_name |-> DNSNameDefaults, q_type |-> None, q_class |-> None,
                 s_pack_start |-> index, s_pack_end |-> None]]
    ELSE IF index + DNSName_get_size(name) + QuestionFixed > Len(pack)
    THEN [err |-> "struct.error",
          q |-> [q_name |-> name, q_type |-> None, q_class |-> None,
                 s_pack_start |-> index, s_pack_end |-> None]]
    ELSE [err |-> "none",
          q |-> [q_name |-> name,
                 q_type |-> UnpackH(pack, index + DNSName_get_size(name)),
                 q_class |-> UnpackH(pack, index + DNSName_get_size(name) + 2),
                 s_pack_start |-> index,
                 s_pack_end |-> index + DNSName_get_size(name) + QuestionFixed]]

DNSQuestion_read_name(pack, index, st) ==
    DNSQuestion_after_name(pack, index, st, DNSName_of_pack(st))

\* DNSQuestion(pack=pack, index=index), index > 0.
DNSQuestion_from_pack(pack, index) ==
    DNSQuestion_read_name(pack, index, DNSName_from_pack(pack, index))

(***************************************************************************)
(* DNSResource                                                             *)
(***************************************************************************)

\* struct.size of "!HHLH"
ResourceFixed == 10

\* r_data: nothing, octets, or a DNSName.
NoData == [kind |-> "none", octets |-> << >>, name |-> DNSNameDefaults]

DNSResourceDefaults ==
    [a_name |-> DNSNameDefaults, a_type |-> None, a_class |-> None, a_ttl |-> None,
     r_d_length |-> None, r_data |-> NoData, s_pack_start |-> None, s_pack_end |-> None]

DNSResource_get_size(r) == DNSName_get_size(r.a_name) + ResourceFixed + r.r_d_length

\* The rdata of a record r whose fixed fields were read; data is the
\* offset after them.
DNSResource_rdata(pack, data, r) ==
    IF r.a_type = 1
    THEN IF r.r_d_length # 4
         THEN [err |-> "SyntaxError",
               r |-> [r EXCEPT !.r_data = [NoData EXCEPT !.kind = "octets",
                          !.octets = Slice(pack, data, data + r.r_d_length)]]]
         ELSE [err |-> "none",
               r |-> [r EXCEPT !.r_data = [NoData EXCEPT !.kind = "octets",
                          !.octets = Slice(pack, data, data + r.r_d_length)],
                               !.s_pack_end = data + r.r_d_length]]
    ELSE IF r.a_type = 2 \/ r.a_type = 5
    THEN LET dst == DNSName_from_pack(pack, data)
         IN  IF NameErr(dst) # "none" THEN [err |-> NameErr(dst), r |-> r]
             ELSE [err |-> "none",
                   r |-> [r EXCEPT
                            !.r_data = [NoData EXCEPT !.kind = "name",
                                           !.name = DNSName_of_pack(dst)],
                            !.s_pack_end = data + DNSName_get_size(DNSName_of_pack(dst))]]
    ELSE [err |-> "none", r |-> [r EXCEPT !.s_pack_end = data]]

\* DNSResource.from_pack once the name was read with locals st; at is the
\* offset after the name.
DNSResource_after_name(pack, index, st, name, at) ==
    IF NameErr(st) # "none"
    THEN [err |-> NameErr(st), r |-> [DNSResourceDefaults EXCEPT !.s_pack_start = index]]
    ELSE IF at + ResourceFixed > Len(pack)
    THEN [err |-> "struct.error",
          r |-> [DNSResourceDefaults EXCEPT !.s_pack_start = index, !.a_name = name]]
    ELSE DNSResource_rdata(pack, at + ResourceFixed,
             [DNSResourceDefaults EXCEPT
                !.s_pack_start = index, !.a_name = name,
                !.a_type = UnpackH(pack, at), !.a_class = UnpackH(pack, at + 2),
                !.a_ttl = UnpackL(pack, at + 4), !.r_d_length = UnpackH(pack, at + 8)])

DNSResource_read_name(pack, index, st) ==
    DNSResource_after_name(pack, index, st, DNSName_of_pack(st),
                           index + (IF st.status = "return" THEN st.pack_size ELSE 0))

\* DNSResource(pack=pack, index=index), index > 0.
DNSResource_from_pack(pack, index) ==
    DNSResource_read_name(pack, index, DNSName_from_pack(pack, index))

(***************************************************************************)
(* DNSPacket.  The header and the four lists are attributes of the class:  *)
(* no method assigns them on an instance, so every instance reads and      *)
(* changes the objects of the class.  A message m is the record of those   *)
(* five objects.  An instance's own attribute s_pack is assigned by        *)
(* from_pack and read by no method here; the argument is kept in last.     *)
(***************************************************************************)

\* One pass of "for i in range(n): lst.append(DNSQuestion(pack=pack,
\* index=loc)); loc += lst[i].get_size()" and the passes after it; got is
\* what the constructor gave.
RECURSIVE ReadQuestions(_, _, _, _, _)
ReadQuestionsPass(lst, pack, loc, i, n, got) ==
    IF got.err # "none" THEN [err |-> got.err, lst |-> lst, loc |-> loc]
    ELSE ReadQuestions(Append(lst, got.q), pack,
                       loc + DNSQuestion_get_size(Append(lst, got.q)[i + 1]), i + 1, n)

ReadQuestions(lst, pack, loc, i, n) ==
    IF i >= n THEN [err |-> "none", lst |-> lst, loc |-> loc]
    ELSE ReadQuestionsPass(lst, pack, loc, i, n, DNSQuestion_from_pack(pack, loc))

\* The same loop over DNSResource, for answers, authority and additional.
RECURSIVE ReadResources(_, _, _, _, _)
ReadResourcesPass(lst, pack, loc, i, n, got) ==
    IF got.err # "none" THEN [err |-> got.err, lst |-> lst, loc |-> loc]
    ELSE ReadResources(Append(lst, got.r), pack,
                       loc + DNSResource_get_size(Append(lst, got.r)[i + 1]), i + 1, n)

ReadResources(lst, pack, loc, i, n) ==
    IF i >= n THEN [err |-> "none", lst |-> lst, loc |-> loc]
    ELSE ReadResourcesPass(lst, pack, loc, i, n, DNSResource_from_pack(pack, loc))

\* from_pack after its four loops in turn; got is what the loop before gave.
from_pack_additional(m, pack, got) ==
    [err |-> got.err, m |-> [m EXCEPT !.additional = got.lst]]

from_pack_authority(m, pack, got) ==
    IF got.err # "none" THEN [err |-> got.err, m |-> [m EXCEPT !.authority = got.lst]]
    ELSE from_pack_additional([m EXCEPT !.authority = got.lst], pack,
             ReadResources(m.additional, pack, got.loc, 0, m.header.ar_count))

from_pack_answers(m, pack, got) ==
    IF got.err # "none" THEN [err |-> got.err, m |-> [m EXCEPT !.answers = got.lst]]
    ELSE from_pack_authority([m EXCEPT !.answers = got.lst], pack,
             ReadResources(m.authority, pack, got.loc, 0, m.header.ns_count))

from_pack_questions(m, pack, got) ==
    IF got.err # "none" THEN [err |-> got.err, m |-> [m EXCEPT !.questions = got.lst]]
    ELSE from_pack_answers([m EXCEPT !.questions = got.lst], pack,
             ReadResources(m.answers, pack, got.loc, 0, m.header.an_count))

\* A variant of from_pack that looks at TC only after the questions.
from_pack_sections_late(m, pack) ==
    IF m.header.TC
    THEN [err |-> "ValueError",
          m |-> [m EXCEPT !.questions =
                    ReadQuestions(m.questions, pack, HeaderSize, 0,
                                  m.header.qd_count).lst]]
    ELSE from_pack_questions(m, pack,
             ReadQuestions(m.questions, pack, HeaderSize, 0, m.header.qd_count))

\* from_pack once the header of the class was set from the pack.
from_pack_sections(m, pack) ==
    IF m.header.TC THEN [err |-> "ValueError", m |-> m]
    ELSE from_pack_questions(m, pack,
             ReadQuestions(m.questions, pack, HeaderSize, 0, m.header.qd_count))

\* from_pack(pack) on a packet whose class objects are m: the exception
\* raised and the class objects afterwards.
DNSPacket_from_pack(m, pack) ==
    IF Len(pack) < HeaderSize THEN [err |-> "struct.error", m |-> m]
    ELSE from_pack_sections([m EXCEPT !.header = DNSHeader_set_from_pack(pack)], pack)

\* add_q(name, q_type) on a packet whose class objects are m.
DNSPacket_add_q(m, name, q_type) ==
    LET got == DNSQuestion_of_name(name, q_type, 1)
    IN  IF got.err # "none" THEN [err |-> got.err, m |-> m]
        ELSE [err |-> "none",
              m |-> [m EXCEPT !.questions = Append(@, got.q),
                              !.header.qd_count = @ + 1]]

\* get_pack() on a packet whose class objects are m.  A DNSResource cannot
\* be packed: its get_pack joins bytes with a str separator.
DNSPacket_get_pack(m) ==
    LET h == m.header
        sections == << << h.an_count, m.answers >>, << h.ns_count, m.authority >>,
                       << h.ar_count, m.additional >> >>
        first == CHOOSE i \in 1..4 :
                    /\ i = 4 \/ sections[i][1] > 0
                    /\ \A j \in 1..(i - 1) : sections[j][1] <= 0
    IN  IF ~DNSHeader_packable(h) THEN [err |-> "struct.error", pack |-> << >>]
        ELSE IF h.qd_count > Len(m.questions) THEN [err |-> "IndexError", pack |-> << >>]
        ELSE IF first < 4
            THEN [err |-> IF sections[first][2] = << >> THEN "IndexError" ELSE "TypeError",
                  pack |-> << >>]
        ELSE [err |-> "none",
              pack |-> DNSHeader_get_pack(h)
                          \o Join([i \in 1..h.qd_count |->
                                      DNSQuestion_get_pack(m.questions[i])])]

(***************************************************************************)
(* Header codec: a header with given fields is packed, and a second        *)
(* DNSHeader is built from the octets.                                     *)
(***************************************************************************)

\* The id and the four counts: << id, qd, an, ns, ar >>.
HeaderWords == {<< 0, 0, 0, 0, 0 >>, << 43981, 1, 0, 0, 0 >>,
                << 65535, 1, 2, 258, 65535 >>}
HeaderOpcodes == {0, 1, 2, 4, 8, 15, 16}
HeaderZs == {0, 1, 2, 4, 7, 8}
HeaderRcodes == {0, 1, 2, 3, 4, 5, 8, 15, 16}

\* Field values: each bit of each bit field, its largest value, one past it.
HeaderInputs ==
    { [id |-> c[1], notquery |-> fl[1], opcode |-> op, AA |-> fl[2], TC |-> fl[3],
       RD |-> fl[4], RA |-> fl[5], Z |-> z, r_code |-> rc,
       qd_count |-> c[2], an_count |-> c[3], ns_count |-> c[4], ar_count |-> c[5]] :
      fl \in [1..5 -> BOOLEAN], op \in HeaderOpcodes, z \in HeaderZs,
      rc \in HeaderRcodes, c \in HeaderWords }

HdrIdle ==
    /\ hc_pc = "idle" /\ hc_h = DNSHeaderDefaults /\ hc_pack = << >>
    /\ hc_back = DNSHeaderDefaults

HdrInit ==
    /\ hc_pc = "new"
    /\ hc_h \in HeaderInputs
    /\ hc_pack = << >>
    /\ hc_back = DNSHeaderDefaults

\* hc_h.get_pack()
HdrGetPack ==
    /\ hc_pc = "new"
    /\ IF DNSHeader_packable(hc_h)
       THEN hc_pack' = DNSHeader_get_pack(hc_h) /\ hc_pc' = "packed"
       ELSE hc_pack' = hc_pack /\ hc_pc' = "raised"
    /\ UNCHANGED << hc_h, hc_back >>
    /\ UNCHANGED << nc_vars, pk_vars >>

\* DNSHeader(header_pack=hc_pack)
HdrFromPack ==
    /\ hc_pc = "packed"
    /\ hc_back' = DNSHeader_set_from_pack(hc_pack)
    /\ hc_pc' = "unpacked"
    /\ UNCHANGED << hc_h, hc_pack >>
    /\ UNCHANGED << nc_vars, pk_vars >>

(***************************************************************************)
(* Name codec: a dotted text is made a DNSName, packed and read back, from *)
(* its own octets or from a buffer that holds it compressed; or a buffer   *)
(* of arbitrary octets is read.                                            *)
(***************************************************************************)

\* The text of n times the code point cp.
Rep(cp, n) == [i \in 1..n |-> cp]

\* Labels: short ones, the lengths around the limits, two-octet characters
\* ("e" acute, 233), and the empty label.
LabelTexts ==
    {<< >>, Rep(97, 1), Rep(97, 63), Rep(97, 64), Rep(97, 65), Rep(97, 66),
     Rep(233, 2), Rep(233, 31), Rep(233, 65)}

\* The most labels of a text.
MaxLabels == 2

RECURSIVE DotJoin(_)
DotJoin(labels) ==
    IF Len(labels) = 0 THEN << >>
    ELSE IF Len(labels) = 1 THEN labels[1]
    ELSE labels[1] \o << Dot >> \o DotJoin(Tail(labels))

NameInputs ==
    UNION { { DotJoin(ls), DotJoin(ls) \o << Dot >> } :
            ls \in UNION { [1..n -> LabelTexts] : n \in 1..MaxLabels } }

\* The octets a buffer is built of: label lengths, pointer targets, the
\* two pointer marks.
WireOctets == {0, 1, 2, 65, 192, 255}

\* The longest buffer of arbitrary octets.
MaxWireLen == 4

WireInputs == UNION { [1..n -> WireOctets] : n \in 0..MaxWireLen }

\* The octets before or between the two occurrences of a name.
Padding == {<< >>, [i \in 1..HeaderSize |-> 192]}

NoCase == [kind |-> "none", lead |-> 0, ptr |-> 0]

NameIdle ==
    /\ nc_pc = "idle" /\ nc_name = << >> /\ nc_err = "none"
    /\ nc_obj = DNSNameDefaults /\ nc_wire = << >> /\ nc_case = NoCase
    /\ nc_st = from_pack_enter(<< >>, 0) /\ nc_dec = DNSNameDefaults

NameInitText ==
    /\ nc_pc = "start" /\ nc_name \in NameInputs /\ nc_err = "none"
    /\ nc_obj = DNSNameDefaults /\ nc_wire = << >> /\ nc_case = NoCase
    /\ nc_st = from_pack_enter(<< >>, 0) /\ nc_dec = DNSNameDefaults

\* DNSName.init_from_pack(pack, sloc) has been called on arbitrary octets.
NameInitWire ==
    /\ nc_pc = "decoding" /\ nc_name = << >> /\ nc_err = "none"
    /\ nc_obj = DNSNameDefaults /\ nc_wire = << >>
    /\ nc_case = [kind |-> "raw", lead |-> 0, ptr |-> 0]
    /\ \E pack \in WireInputs : \E sloc \in 0..Len(pack) :
           nc_st = from_pack_enter(pack, sloc)
    /\ nc_dec = DNSNameDefaults

\* nc_obj = DNSName.init_from_name(nc_name)
NameFromName ==
    /\ nc_pc = "start"
    /\ LET r == DNSName_from_name(nc_name)
       IN  /\ nc_err' = r.err
           /\ nc_obj' = IF r.err = "none" THEN DNSName_of_array(r.retl) ELSE nc_obj
           /\ nc_pc' = IF r.err = "none" THEN "named" ELSE "raised"
    /\ UNCHANGED << nc_name, nc_wire, nc_case, nc_st, nc_dec >>
    /\ UNCHANGED << hc_vars, pk_vars >>

\* nc_wire = nc_obj.get_pack()
NameGetPack ==
    /\ nc_pc = "named"
    /\ nc_wire' = DNSName_get_pack(nc_obj)
    /\ nc_pc' = "packed"
    /\ UNCHANGED << nc_name, nc_err, nc_obj, nc_case, nc_st, nc_dec >>
    /\ UNCHANGED << hc_vars, pk_vars >>

\* DNSName.init_from_pack(nc_wire) is entered.
NameFromPackPlain ==
    /\ nc_pc = "packed"
    /\ nc_st' = from_pack_enter(nc_wire, 0)
    /\ nc_case' = [kind |-> "plain", lead |-> 0, ptr |-> 0]
    /\ nc_pc' = "decoding"
    /\ UNCHANGED << nc_name, nc_err, nc_obj, nc_wire, nc_dec >>
    /\ UNCHANGED << hc_vars, pk_vars >>

\* The octets of a pointer to offset p.
Pointer(p) == << 192 + (p \div 256), p % 256 >>

\* DNSName.init_from_pack is entered on a buffer that holds nc_wire and, before
\* or after it, the first k labels of the name followed by a pointer to
\* the place of the remaining labels in nc_wire.
NameFromPackCompressed ==
    /\ nc_pc = "packed"
    /\ \E k \in 0..(Len(nc_obj.name_array) - 1), pad \in Padding, back \in BOOLEAN :
          LET lead == DNSName_get_oct_name(SubSeq(nc_obj.name_array, 1, k))
              p == IF back THEN Len(pad) + Len(lead)
                   ELSE Len(lead) + 2 + Len(pad) + Len(lead)
              pack == IF back THEN pad \o nc_wire \o lead \o Pointer(p)
                      ELSE lead \o Pointer(p) \o pad \o nc_wire
              sloc == IF back THEN Len(pad) + Len(nc_wire) ELSE 0
          IN  /\ p < 16384
              /\ nc_st' = from_pack_enter(pack, sloc)
              /\ nc_case' = [kind |-> "compressed", lead |-> k, ptr |-> p]
    /\ nc_pc' = "decoding"
    /\ UNCHANGED << nc_name, nc_err, nc_obj, nc_wire, nc_dec >>
    /\ UNCHANGED << hc_vars, pk_vars >>

\* One pass of the loop of the running from_pack; when it returns, the
\* DNSName is completed, when it raises, the exception is kept.
NameFromPackIter ==
    /\ nc_pc = "decoding"
    /\ nc_st.status = "loop"
    /\ nc_st.iters < MaxIter
    /\ nc_st' = from_pack_iter(nc_st)
    /\ nc_pc' = CASE nc_st'.status = "loop" -> "decoding"
                  [] nc_st'.status = "return" -> "decoded"
                  [] OTHER -> "raised"
    /\ nc_err' = IF nc_st'.status \in {"loop", "return"} THEN nc_err
                 ELSE nc_st'.status
    /\ nc_dec' = IF nc_st'.status = "return" THEN DNSName_of_pack(nc_st') ELSE nc_dec
    /\ UNCHANGED << nc_name, nc_obj, nc_wire, nc_case >>
    /\ UNCHANGED << hc_vars, pk_vars >>

(***************************************************************************)
(* Packets: instances are constructed, questions added, packets packed,    *)
(* and buffers read: replies as a server sends them, and the octets a      *)
(* get_pack just returned.                                                 *)
(***************************************************************************)

\* The most DNSPacket instances, and the longest list a call may leave.
MaxPackets == 2
MaxRecords == 2

\* The ids getrandbits(16) may give the header of the class.
RandomIds == {0, 4660}

\* The names asked for: "a.b" and a text of no character.
QueryNames == {<< 97, Dot, 98 >>, << >>}
QueryTypes == {1}

\* Reply headers: id 4660, QR RD RA, the counts qd an ns ar.
ReplyHeader(qd, an, ns, ar) == << 18, 52, 129, 128, 0, qd, 0, an, 0, ns, 0, ar >>
\* The same with TC, as a reply (131) and with no other flag (2).
TruncatedHeader(flags, qd, an) == << 18, 52, flags, 128, 0, qd, 0, an, 0, 0, 0, 0 >>

\* "a.b" A IN, at offset 12: "a" at 12, "b" at 14.
WireQuestion == << 1, 97, 1, 98, 0, 0, 1, 0, 1 >>
\* a.b A 60 10.0.0.1, the name a pointer to offset 12.
WireA == << 192, 12, 0, 1, 0, 1, 0, 0, 0, 60, 0, 4, 10, 0, 0, 1 >>
\* The same with an rdata of 3 octets.
WireBadA == << 192, 12, 0, 1, 0, 1, 0, 0, 0, 60, 0, 3, 10, 0, 0 >>
\* a.b CNAME b, the rdata a pointer to offset 14.
WireCNAME == << 192, 12, 0, 5, 0, 1, 0, 0, 0, 60, 0, 2, 192, 14 >>
\* b NS c.b, the rdata "c" and a pointer to offset 14.
WireNS == << 192, 14, 0, 2, 0, 1, 0, 0, 0, 60, 0, 4, 1, 99, 192, 14 >>
\* . TXT (type 16), an rdata of 3 octets.
WireTXT == << 0, 0, 16, 0, 1, 0, 0, 0, 0, 0, 3, 2, 104, 105 >>

Replies ==
    {ReplyHeader(0, 0, 0, 0),
     ReplyHeader(1, 1, 0, 0) \o WireQuestion \o WireA,
     ReplyHeader(1, 1, 1, 1) \o WireQuestion \o WireCNAME \o WireNS \o WireTXT,
     ReplyHeader(1, 1, 0, 0) \o WireQuestion \o WireBadA,
     ReplyHeader(1, 0, 0, 0) \o << 192, 255 >>,
     << 18, 52, 129 >>}

TruncatedReplies ==
    { TruncatedHeader(fl, c[1], c[2]) \o tail :
        fl \in {131, 2}, c \in {<< 1, 1 >>},
        tail \in {<< >>, << 192 >>, << 192, 255 >>, WireQuestion \o WireA} }

\* The five objects of the class DNSPacket.
ClassObjects ==
    [header |-> header, questions |-> questions, answers |-> answers,
     authority |-> authority, additional |-> additional]

\* What the attributes of instance p resolve to: no instance has a header
\* or a list of its own, the lookup ends at the class.
PacketHeader(p) == header
PacketQuestions(p) == questions
PacketAnswers(p) == answers
PacketAuthority(p) == authority
PacketAdditional(p) == additional

NoCall == [op |-> "none", pkt |-> 0, pack |-> << >>, err |-> "none"]

SetClassObjects(m) ==
    /\ header' = m.header /\ questions' = m.questions /\ answers' = m.answers
    /\ authority' = m.authority /\ additional' = m.additional

PktIdle ==
    /\ header = DNSHeaderDefaults /\ questions = << >> /\ answers = << >>
    /\ authority = << >> /\ additional = << >> /\ pkts = << >>
    /\ last = NoCall
    /\ failed = FALSE

\* The class body of DNSPacket has run: header = DNSHeader(), four empty lists.
PktInit ==
    /\ \E r \in RandomIds : header = DNSHeader_init(r)
    /\ questions = << >> /\ answers = << >> /\ authority = << >>
    /\ additional = << >> /\ pkts = << >>
    /\ last = NoCall
    /\ failed = FALSE

\* DNSPacket()
NewPacket ==
    /\ Len(pkts) < MaxPackets
    /\ pkts' = Append(pkts, [built |-> FALSE])
    /\ last' = [NoCall EXCEPT !.op = "new", !.pkt = Len(pkts) + 1]
    /\ UNCHANGED << header, questions, answers, authority, additional, failed >>
    /\ UNCHANGED << hc_vars, nc_vars >>

\* pkts[p].add_q(name, q_type)
AddQ ==
    /\ Len(questions) < MaxRecords
    /\ \E p \in 1..Len(pkts), name \in QueryNames, q_type \in QueryTypes :
          \E r \in {DNSPacket_add_q(ClassObjects, name, q_type)} :
              /\ SetClassObjects(r.m)
              /\ pkts' = [pkts EXCEPT ![p].built = TRUE]
              /\ last' = [NoCall EXCEPT !.op = "add_q", !.pkt = p, !.err = r.err]
    /\ UNCHANGED failed
    /\ UNCHANGED << hc_vars, nc_vars >>

\* pkts[p].get_pack()
GetPack ==
    /\ \E p \in 1..Len(pkts) :
          \E r \in {DNSPacket_get_pack(ClassObjects)} :
              last' = [op |-> "get_pack", pkt |-> p, pack |-> r.pack, err |-> r.err]
    /\ UNCHANGED << header, questions, answers, authority, additional, pkts, failed >>
    /\ UNCHANGED << hc_vars, nc_vars >>

\* The octets a from_pack may be given: a reply, or what get_pack just
\* returned.
Received ==
    Replies \cup TruncatedReplies
        \cup (IF last.op = "get_pack" /\ last.err = "none" THEN {last.pack} ELSE {})

\* pkts[p].from_pack(pack)
FromPack ==
    /\ \E p \in 1..Len(pkts), pack \in Received :
          \E r \in {DNSPacket_from_pack(ClassObjects, pack)} :
              /\ \A l \in {r.m.questions, r.m.answers, r.m.authority, r.m.additional} :
                    Len(l) <= MaxRecords
              /\ SetClassObjects(r.m)
              /\ pkts' = pkts
              /\ last' = [op |-> "from_pack", pkt |-> p, pack |-> pack, err |-> r.err]
              /\ failed' = (failed \/ r.err # "none")
    /\ UNCHANGED << hc_vars, nc_vars >>

vars == << hc_vars, nc_vars, pk_vars >>

Init == HdrIdle /\ NameIdle /\ PktInit
Next == NewPacket \/ AddQ \/ GetPack \/ FromPack
Spec == Init /\ [][Next]_vars

(***************************************************************************)
(* Properties of packets                                                   *)
(***************************************************************************)

\* C3: in any sequence of constructions, add_q calls and decodes that did
\* not raise, a DNSPacket that was just constructed and then had add_q
\* called on it has a header with RD true and notquery false.
SendPacketIsRecursiveQuery ==
    [][(~failed /\ last.op = "new" /\ last'.op = "add_q" /\ last'.pkt = last.pkt)
       => (PacketHeader(last'.pkt)'.RD /\ ~PacketHeader(last'.pkt)'.notquery)]_vars

\* The message of the class holds exactly one question, made by add_q with
\* a valid name, type 1 and class 1, and nothing else.
OneQuestionMessage ==
    /\ Len(questions) = 1 /\ answers = << >> /\ authority = << >> /\ additional = << >>
    /\ header.qd_count = 1 /\ header.an_count = 0 /\ header.ns_count = 0
    /\ header.ar_count = 0
    /\ ~questions[1].q_name.s_pack
    /\ questions[1].q_type = 1 /\ questions[1].q_class = 1

\* C4: get_pack of a message with exactly one question gives 12 octets of
\* header with qd_count 1 followed by the question's octets, and from_pack
\* of those octets leaves a message equal to the original: the same header
\* fields, exactly one question of the same name, type and class, and
\* empty answers, authority and additional.
MessageRoundTrip ==
    [][(last.op = "get_pack" /\ last.err = "none" /\ OneQuestionMessage
        /\ last'.op = "from_pack" /\ last'.pack = last.pack)
       => /\ SubSeq(last.pack, 5, 6) = << 0, 1 >>
          /\ Len(last.pack) = 12 + Len(DNSQuestion_get_pack(questions[1]))
          /\ last'.err = "none"
          /\ header' = header
          /\ Len(questions') = 1
          /\ questions'[1].q_name.name_array = questions[1].q_name.name_array
          /\ questions'[1].q_type = 1 /\ questions'[1].q_class = 1
          /\ answers' = << >> /\ authority' = << >> /\ additional' = << >>]_vars

\* The TC bit of the header octets of a pack.
TCSet(pack) == (pack[3] \div 2) % 2 = 1

\* C5: from_pack of at least 12 octets whose header has TC set raises
\* ValueError (the Truncated signal) whatever follows the header, and no
\* list gains an element.
TruncationShortCircuit ==
    [][(last'.op = "from_pack" /\ Len(last'.pack) >= 12 /\ TCSet(last'.pack))
       => /\ last'.err = "ValueError"
          /\ questions' = questions /\ answers' = answers
          /\ authority' = authority /\ additional' = additional]_vars

TruncationShortCircuitWitness ==
    /\ last.op = "from_pack" /\ last.err = "ValueError"
    /\ Len(last.pack) > 14 /\ TCSet(last.pack)
    /\ UnpackH(last.pack, 4) = 1 /\ header.TC
    /\ questions = << >>

\* C7: add_q or from_pack on one DNSPacket leaves the header and the four
\* lists of every other DNSPacket as they were.
InstanceIsolation ==
    [][\A q \in 1..Len(pkts) :
          (last'.op \in {"add_q", "from_pack"} /\ last'.pkt # q)
          => /\ PacketHeader(q)' = PacketHeader(q)
             /\ PacketQuestions(q)' = PacketQuestions(q)
             /\ PacketAnswers(q)' = PacketAnswers(q)
             /\ PacketAuthority(q)' = PacketAuthority(q)
             /\ PacketAdditional(q)' = PacketAdditional(q)]_vars

\* C10: as long as no from_pack has raised, the four counts of every
\* packet's header are the lengths of its four lists.
CountInvariant ==
    ~failed =>
        \A p \in 1..Len(pkts) :
            /\ PacketHeader(p).qd_count = Len(PacketQuestions(p))
            /\ PacketHeader(p).an_count = Len(PacketAnswers(p))
            /\ PacketHeader(p).ns_count = Len(PacketAuthority(p))
            /\ PacketHeader(p).ar_count = Len(PacketAdditional(p))

InitName == HdrIdle /\ (NameInitText \/ NameInitWire) /\ PktIdle
NextName ==
    \/ NameFromName
    \/ NameGetPack
    \/ NameFromPackPlain
    \/ NameFromPackCompressed
    \/ NameFromPackIter
SpecName == InitName /\ [][NextName]_vars

(***************************************************************************)
(* Properties of the name codec                                            *)
(***************************************************************************)

\* The labels of a dotted text: the pieces between its dots, one final dot
\* left aside.
TextLabels(name) ==
    StrSplit(IF name # << >> /\ name[Len(name)] = Dot
             THEN SubSeq(name, 1, Len(name) - 1) ELSE name)

\* A valid dotted name: every label holds 1 to 63 octets.
ValidName(name) ==
    /\ name # << >>
    /\ \A i \in 1..Len(TextLabels(name)) :
          Len(StrEncode(TextLabels(name)[i])) \in 1..63

\* The label sequence of a dotted name: its labels as octets, then the
\* empty root label.
LabelSequence(name) ==
    [i \in 1..Len(TextLabels(name)) |-> StrEncode(TextLabels(name)[i])] \o << << >> >>

\* The octets the first k labels of a name take on the wire.
RECURSIVE LeadOctets(_, _)
LeadOctets(name, k) ==
    IF k = 0 THEN 0
    ELSE LeadOctets(name, k - 1) + 1 + Len(StrEncode(TextLabels(name)[k]))

\* C1: for a valid dotted name, with or without a final dot, neither
\* init_from_name nor the decode of its get_pack() at offset 0 raises,
\* the decoded name_array is the label sequence of the name with the empty
\* root label last, and the size consumed is the length of the octets.
NameRoundTrip ==
    (nc_pc # "idle" /\ nc_case.kind \in {"none", "plain"} /\ ValidName(nc_name)) =>
        /\ nc_pc # "raised"
        /\ nc_pc = "decoded" =>
              /\ nc_dec.name_array = LabelSequence(nc_name)
              /\ nc_dec.s_pack_start = 0
              /\ DNSName_get_size(nc_dec) = Len(nc_wire)

NameRoundTripWitness ==
    /\ nc_pc = "decoded" /\ nc_case.kind = "plain" /\ ValidName(nc_name)
    /\ Len(TextLabels(nc_name)) = 2
    /\ nc_name[Len(nc_name)] # Dot
    /\ \E i \in 1..2 : Len(nc_dec.name_array[i]) = 63

\* The offset o of pack holds both octets of a pointer whose target is
\* past the end of pack.
PointerOutside(pack, o) ==
    /\ o + 2 <= Len(pack)
    /\ pack[o + 1] >= 192
    /\ (pack[o + 1] % 64) * 256 + pack[o + 2] >= Len(pack)

\* The offsets whose octet the next pass of from_pack reads as a length
\* octet: the one at loc and, when that is a pointer into the pack, the
\* one at its target.
LengthOctetsRead(st) ==
    {st.loc} \cup
        (IF st.loc + 2 <= Len(st.pack) /\ st.pack[st.loc + 1] >= 192
            /\ ~PointerOutside(st.pack, st.loc)
         THEN {(st.pack[st.loc + 1] % 64) * 256 + st.pack[st.loc + 2]}
         ELSE {})

\* C2: whenever the decode of a name reaches a length octet with both top
\* bits set whose 14-bit target is at or past the end of the buffer, the
\* decode raises SyntaxError (the MalformedName error) and returns no name.
MalformedPointerRejected ==
    [][(nc_pc = "decoding"
        /\ \E o \in LengthOctetsRead(nc_st) : PointerOutside(nc_st.pack, o))
       => (nc_st'.status = "SyntaxError" /\ nc_pc' = "raised")]_vars

\* The part of C2 that the code keeps: a pointer met at the head of a pass
\* (never as the target of another pointer) with its target outside.
HeadPointerRejected ==
    [][(nc_pc = "decoding" /\ PointerOutside(nc_st.pack, nc_st.loc))
       => (nc_st'.status = "SyntaxError" /\ nc_pc' = "raised")]_vars

\* C8: init_from_name raises SyntaxError (the LabelTooLong error) whenever
\* a label of the text is longer than 63 octets.
LabelTooLongRejected ==
    (nc_pc \notin {"idle", "start"}
     /\ \E i \in 1..Len(TextLabels(nc_name)) :
           Len(StrEncode(TextLabels(nc_name)[i])) > 63)
        => nc_err = "SyntaxError"

\* The second half of C8: every length get_pack emits is one octet in 0..63.
LengthOctetsSmall ==
    nc_pc = "packed" =>
        /\ Len(nc_wire) = Len(nc_obj.name_array)
                             + Len(Join(nc_obj.name_array))
        /\ \A i \in 1..Len(nc_obj.name_array) : Len(nc_obj.name_array[i]) <= 63

\* C9: for a valid name, decoding its first k labels followed by a pointer
\* to an uncompressed occurrence of the remaining labels gives the label
\* sequence that decoding the uncompressed octets gives, and the size
\* consumed is the octets of the k labels plus 2.
CompressionEquivalence ==
    (nc_case.kind = "compressed" /\ ValidName(nc_name)) =>
        /\ nc_pc # "raised"
        /\ nc_pc = "decoded" =>
              /\ nc_dec.name_array = DNSName_from_pack(nc_wire, 0).retl
              /\ nc_dec.name_array = LabelSequence(nc_name)
              /\ DNSName_get_size(nc_dec) = LeadOctets(nc_name, nc_case.lead) + 2

CompressionEquivalenceWitness ==
    /\ nc_pc = "decoded" /\ nc_case.kind = "compressed" /\ ValidName(nc_name)
    /\ nc_case.lead = 1 /\ nc_case.ptr > HeaderSize
    /\ Len(nc_dec.name_array) = 3
    /\ nc_st.loc > nc_st.sloc + DNSName_get_size(nc_dec)

\* The running decode stands, at the head of a pass, at an offset where an
\* earlier pass of the same call began.  The pass taken from an offset
\* depends on the buffer and that offset alone, so from here the loop
\* repeats the passes made since then without end.
Revisited(st) ==
    /\ st.status = "loop"
    /\ \E j \in 0..(st.iters - 1) :
          from_pack_after(from_pack_enter(st.pack, st.sloc), j).loc = st.loc

\* C11: from_pack ends on every buffer and start offset: a decode never
\* comes back, still running, to an offset it started a pass at before; a
\* pointer chain that leads back to such an offset has raised SyntaxError
\* (the MalformedName error) instead.
NameDecodeTerminates ==
    ~(nc_pc = "decoding" /\ Revisited(nc_st))

InitHeader == HdrInit /\ NameIdle /\ PktIdle
NextHeader == HdrGetPack \/ HdrFromPack
SpecHeader == InitHeader /\ [][NextHeader]_vars

ValidHeader(h) ==
    /\ h.id \in 0..65535
    /\ h.opcode \in 0..15 /\ h.Z \in 0..7 /\ h.r_code \in 0..15
    /\ \A c \in {h.qd_count, h.an_count, h.ns_count, h.ar_count} : c \in 0..65535

\* C6: a valid header packs to 12 octets, octet 2 is QR(1) OPCODE(4) AA(1)
\* TC(1) RD(1), octet 3 is RA(1) Z(3) RCODE(4), and the header built from
\* those octets equals the original in every field.
HeaderRoundTrip ==
    (hc_pc \in {"packed", "unpacked", "raised"} /\ ValidHeader(hc_h)) =>
        /\ hc_pc # "raised"
        /\ Len(hc_pack) = 12
        /\ hc_pack[3] = 128 * BoolInt(hc_h.notquery) + 8 * hc_h.opcode
                          + 4 * BoolInt(hc_h.AA) + 2 * BoolInt(hc_h.TC)
                          + BoolInt(hc_h.RD)
        /\ hc_pack[4] = 128 * BoolInt(hc_h.RA) + 16 * hc_h.Z + hc_h.r_code
        /\ (hc_pc = "unpacked" => hc_back = hc_h)

HeaderRoundTripWitness ==
    /\ hc_pc = "unpacked" /\ ValidHeader(hc_h)
    /\ hc_h.opcode = 15 /\ hc_h.Z = 7 /\ hc_h.r_code = 15 /\ hc_h.TC /\ hc_h.RA
    /\ hc_h.ar_count = 65535

====
